---- MODULE Spec2Model ----
(***************************************************************************)
(* Model of the taxi-pickups train/evaluate harness:                       *)
(*   src/taxi_pickups.py  Dataset, getModel, main                          *)
(*   src/src/models.py    RegressionModel, Baseline, BetterBaseline        *)
(*                                                                         *)
(* The row source (the MySQL table) is the variable `table`: a function    *)
(* from the ids that are present to the row's num_pickups.  A row comes    *)
(* back from the default MySQLdb cursor as a tuple, the id first.          *)
(* Predictions and averages are modelled by integers.  A train_fraction is *)
(* the double nearest to num/den, and int(train_fraction * dataset_size)   *)
(* is computed as the program computes it, in double arithmetic.           *)
(***************************************************************************)
EXTENDS Integers, Sequences, FiniteSets, TLC

VARIABLES
    table,                  \* row source: present id -> num_pickups
    train_fraction,         \* constructor argument, [num, den]
    dataset_size,           \* constructor argument
    last_train_id,          \* Dataset.last_train_id
    last_test_id,           \* Dataset.last_test_id
    current_example_id,     \* Dataset.current_example_id
    call,                   \* the last Dataset call and what it did
    pred,                   \* the last Model.predict call and what it returned
    pc,                     \* control point of the running procedure
    args,                   \* sys.argv[1:] of main
    TRAIN_BATCH_SIZE,       \* Const.TRAIN_BATCH_SIZE used by RegressionModel.train
    row_dicts,              \* RegressionModel.train: rows collected so far
    requested,              \* ids of the windows train has asked the row source for
    test_data,              \* Evaluator.evaluate: the test examples
    true_num_pickups,       \* Evaluator.evaluate: their labels
    predicted_num_pickups   \* Evaluator.evaluate: the predictions

vars == <<table, train_fraction, dataset_size, last_train_id, last_test_id,
          current_example_id, call, pred, pc, args, TRAIN_BATCH_SIZE,
          row_dicts, requested, test_data, true_num_pickups,
          predicted_num_pickups>>

datasetFields == <<table, train_fraction, dataset_size, last_train_id, last_test_id>>

harnessVars == <<args, TRAIN_BATCH_SIZE, row_dicts, requested, test_data,
                 true_num_pickups, predicted_num_pickups>>

(***************************************************************************)
(* Bounds of the model.                                                    *)
(***************************************************************************)
MaxSize == 4
\* dataset_size ranges over 0..MaxSize (and the sizes of NamedDatasets)

FracDen == 4
\* train_fraction ranges over 1/FracDen .. FracDen/FracDen (and 0.7)

MaxBatch == 3
\* batch_size ranges over 0..MaxBatch

MaxRaw == 1
\* raw estimator outputs and aggregate averages range over -MaxRaw..MaxRaw

MaxPickups == 1
\* num_pickups of a row ranges over 0..MaxPickups

(***************************************************************************)
(* Program constants: main constructs Dataset(0.7, 20, AGGREGATED_PICKUPS) *)
(***************************************************************************)
MAIN_FRACTION_NUM == 7

MAIN_FRACTION_DEN == 10

MAIN_DATASET_SIZE == 20

MainFraction == [num |-> MAIN_FRACTION_NUM, den |-> MAIN_FRACTION_DEN]

\* a size at which 0.7 * size is 62.99999999999999 in double arithmetic
ShortfallSizes == {90}

RawVals == (0 - MaxRaw)..MaxRaw

Max(a, b) == IF a >= b THEN a ELSE b

Min(a, b) == IF a <= b THEN a ELSE b

RECURSIVE Ids(_, _)
\* the sequence lo, lo+1, ..., hi
Ids(lo, hi) == IF lo > hi THEN <<>> ELSE <<lo>> \o Ids(lo + 1, hi)

(***************************************************************************)
(* IEEE-754 double arithmetic, as far as int(train_fraction * dataset_size)*)
(* needs it.  A positive binary number is a sequence of bits, most         *)
(* significant first, with a count of fraction bits kept beside it.        *)
(* Denominators and sizes below 2^15 are supported.                        *)
(***************************************************************************)
RECURSIVE BitLength(_)
BitLength(n) == IF n = 0 THEN 0 ELSE 1 + BitLength(n \div 2)

\* the k low binary digits of v, most significant first
FixedBits(v, k) == [i \in 1..k |-> (v \div (2 ^ (k - i))) % 2]

\* binary digits of a natural number, <<>> for 0
BitsOfNat(n) == FixedBits(n, BitLength(n))

RECURSIVE NatOfBits(_)
\* value of at most 30 bits
NatOfBits(bits) ==
    IF bits = <<>> THEN 0
    ELSE 2 * NatOfBits(SubSeq(bits, 1, Len(bits) - 1)) + bits[Len(bits)]

Zeros(n) == [i \in 1..n |-> 0]

StripLeadingZeros(bits) ==
    LET ones == {i \in 1..Len(bits) : bits[i] = 1}
    IN  IF ones = {} THEN <<>>
        ELSE SubSeq(bits, CHOOSE i \in ones : \A j \in ones : i <= j, Len(bits))

\* bits + 1
IncBits(bits) ==
    LET zeros == {i \in 1..Len(bits) : bits[i] = 0}
    IN  IF zeros = {} THEN <<1>> \o Zeros(Len(bits))
        ELSE LET z == CHOOSE i \in zeros : \A j \in zeros : j <= i
             IN  [i \in 1..Len(bits) |-> IF i < z THEN bits[i] ELSE IF i = z THEN 1 ELSE 0]

RECURSIVE Pow2Mod(_, _)
\* 2^i mod den, by repeated squaring
Pow2Mod(i, den) ==
    IF i = 0 THEN 1 % den
    ELSE LET h == Pow2Mod(i \div 2, den)
         IN  (((h * h) % den) * (IF i % 2 = 1 THEN 2 ELSE 1)) % den

\* remainder of the long division r/den after i fraction bits
DivRem(r, den, i) == (r * Pow2Mod(i, den)) % den

\* the i-th fraction bit of r/den (0 <= r < den)
DivBit(r, den, i) == (2 * DivRem(r, den, i - 1)) \div den

\* fraction bits of r/den up to the `need`-th significant bit of the whole
\* quotient, whose integer part has `have` bits
DivBits(r, den, have, need) ==
    LET first == CHOOSE i \in 1..31 : DivBit(r, den, i) = 1 /\ \A j \in 1..(i - 1) : DivBit(r, den, j) = 0
        n == IF have > 0 THEN need - have ELSE first + need - 1
    IN  [bits |-> [i \in 1..n |-> DivBit(r, den, i)], rem |-> DivRem(r, den, n)]

RECURSIVE MulBits(_, _, _)
\* bits * n + carry, fifteen bits at a time
MulBits(bits, n, carry) ==
    IF bits = <<>> THEN BitsOfNat(carry)
    ELSE LET k == IF Len(bits) < 15 THEN Len(bits) ELSE 15
             t == NatOfBits(SubSeq(bits, Len(bits) - k + 1, Len(bits))) * n + carry
         IN  MulBits(SubSeq(bits, 1, Len(bits) - k), n, t \div (2 ^ k)) \o FixedBits(t % (2 ^ k), k)

\* round to 53 significant bits, ties to even; `sticky` tells that non-zero
\* bits follow the given ones.  The dropped positions are filled with zeros.
RoundToDouble(bits, sticky) ==
    IF Len(bits) <= 53 THEN bits
    ELSE LET keep == SubSeq(bits, 1, 53)
             st == sticky \/ \E i \in 55..Len(bits) : bits[i] = 1
             up == bits[54] = 1 /\ (st \/ keep[53] = 1)
         IN  (IF up THEN IncBits(keep) ELSE keep) \o Zeros(Len(bits) - 53)

\* int(tf * ds): tf the double nearest to num/den, the product rounded to a
\* double, int() dropping the fraction
FloatProductInt(tf, ds) ==
    IF tf.num = 0 \/ ds = 0 THEN 0
    ELSE LET ib == BitsOfNat(tf.num \div tf.den)
             d == DivBits(tf.num % tf.den, tf.den, Len(ib), 54)
             scale == Len(d.bits)
             m == RoundToDouble(StripLeadingZeros(ib \o d.bits), d.rem # 0)
             p == RoundToDouble(MulBits(m, ds, 0), FALSE)
         IN  IF Len(p) <= scale THEN 0
             ELSE NatOfBits(SubSeq(p, 1, Len(p) - scale))

(***************************************************************************)
(* Row source.                                                             *)
(***************************************************************************)
\* a fetched row: a tuple, the id in its first column
Row(i) == <<i, table[i]>>

RowId(row) == row[1]

RECURSIVE SelectBetween(_, _)
\* SELECT * FROM table WHERE id BETWEEN lo AND hi, rows in primary-key order
SelectBetween(lo, hi) ==
    IF lo > hi THEN <<>>
    ELSE (IF lo \in DOMAIN table THEN <<Row(lo)>> ELSE <<>>) \o SelectBetween(lo + 1, hi)

\* Dataset._getExamples(start_id, num_examples)
GetExamples(start_id, num_examples) ==
    LET end_id == start_id + num_examples - 1
    IN  SelectBetween(start_id, end_id)

\* num_pickups of the rows: a small family of label patterns
Labels(S, a, b) == [i \in S |-> (i * a + b) % (MaxPickups + 1)]

(***************************************************************************)
(* Dataset.__init__                                                        *)
(***************************************************************************)
LastTrainIdExact(tf, ds) == (tf.num * ds) \div tf.den

\* line 29: int(train_fraction * dataset_size)
LastTrainId(tf, ds) == FloatProductInt(tf, ds)

LastTestId(ds) == ds

NoCall == [op |-> "none", batch_size |-> 0, before |-> 0, start_id |-> 0,
           end_id |-> 0, examples |-> <<>>, outcome |-> "none"]

NoPred == [model |-> "none", raw |-> <<>>, outcome |-> "none", value |-> 0]

DatasetInit(tf, ds) ==
    /\ train_fraction = tf
    /\ dataset_size = ds
    /\ last_train_id = LastTrainId(tf, ds)
    /\ last_test_id = LastTestId(ds)
    /\ current_example_id = 1
    /\ call = NoCall

hasMoreTrainExamplesStrict == current_example_id < last_train_id

\* lines 36-37
hasMoreTrainExamples == current_example_id <= last_train_id

\* lines 39-40
hasMoreTestExamples == current_example_id <= last_test_id

(***************************************************************************)
(* Dataset.getTrainExamples                                                *)
(***************************************************************************)
UntruncatedBatchSize(cur, ltid, batch_size) == batch_size

\* lines 47-48: the batch is cut to the rows left in the train region
TruncatedBatchSize(cur, ltid, batch_size) ==
    IF cur + batch_size - 1 > ltid THEN ltid - cur + 1 ELSE batch_size

AdvanceByRowsReturned(cur, bs, examples) == cur + Len(examples)

\* line 52: the cursor moves by the (truncated) batch size
AdvanceTrainCursor(cur, bs, examples) == cur + bs

GetTrainExamplesCall(batch_size) ==
    LET bs == TruncatedBatchSize(current_example_id, last_train_id, batch_size)
        examples == GetExamples(current_example_id, bs)
    IN  /\ current_example_id' = AdvanceTrainCursor(current_example_id, bs, examples)
        /\ call' = [op |-> "getTrainExamples", batch_size |-> batch_size,
                    before |-> current_example_id,
                    start_id |-> current_example_id,
                    end_id |-> current_example_id + bs - 1,
                    examples |-> examples, outcome |-> "ok"]
        /\ UNCHANGED datasetFields

(***************************************************************************)
(* Dataset.getTestExample                                                  *)
(***************************************************************************)
TestStartNoFastForward(cur, ltid) == cur

\* lines 64-65: a cursor still in the train region jumps to the first test id
TestStart(cur, ltid) == IF cur <= ltid THEN ltid + 1 ELSE cur

GetTestExampleCall ==
    IF current_example_id > last_test_id
    THEN \* lines 59-62: raise Exception("Cannot access example ...")
         /\ call' = [op |-> "getTestExample", batch_size |-> 1,
                     before |-> current_example_id, start_id |-> 0, end_id |-> 0,
                     examples |-> <<>>, outcome |-> "OutOfRange"]
         /\ UNCHANGED <<current_example_id, datasetFields>>
    ELSE LET start == TestStart(current_example_id, last_train_id)
             fetched == GetExamples(start, 1)
         IN  /\ call' = [op |-> "getTestExample", batch_size |-> 1,
                         before |-> current_example_id,
                         start_id |-> start, end_id |-> start,
                         examples |-> fetched,
                         \* line 67: [0] of an empty result raises IndexError
                         outcome |-> IF fetched = <<>> THEN "IndexError" ELSE "ok"]
             /\ current_example_id' = IF fetched = <<>> THEN start ELSE start + 1
             /\ UNCHANGED datasetFields

(***************************************************************************)
(* Model.predict                                                           *)
(***************************************************************************)
RegressionModels == {"LinearRegression", "SupportVectorRegression", "DecisionTreeRegression"}

BaselineModels == {"Baseline", "BetterBaseline"}

\* the avg_num_pickups of an answer row: <<>> is NULL (None), <<v>> the number v
AvgCells == {<<>>} \cup {<<v>> : v \in RawVals}

\* what db.execute_query(query, fetch_all=False) may hand back: a sequence of
\* 0..2 row mappings, or one row mapping by itself
AggregateResults ==
    {[shape |-> "rows", cells |-> <<>>]}
    \cup {[shape |-> "rows", cells |-> <<c>>] : c \in AvgCells}
    \cup {[shape |-> "rows", cells |-> <<c, c>>] : c \in AvgCells}
    \cup {[shape |-> "mapping", cells |-> <<c>>] : c \in AvgCells}

\* len(results): the rows of a sequence, the keys of a mapping
ResultsLen(results) == IF results.shape = "rows" THEN Len(results.cells) ELSE 1

\* models.py line 87: y = max(0.0, y)
Clamp(y) == IF y > 0 THEN y ELSE 0

\* RegressionModel.predict, y the regressor's output for the example
RegressionPredict(y) == Clamp(y)

\* Baseline.predict and BetterBaseline.predict, results the answer to the
\* AVG query: float(results[0]['avg_num_pickups']) when len(results) == 1
BaselinePredict(results) ==
    IF ResultsLen(results) # 1 THEN [outcome |-> "ok", value |-> 0]
    ELSE IF results.shape = "mapping" THEN [outcome |-> "KeyError", value |-> 0]
    ELSE IF results.cells[1] = <<>> THEN [outcome |-> "TypeError", value |-> 0]
    ELSE [outcome |-> "ok", value |-> results.cells[1][1]]

\* the value the row source answered with, when predict got to read one
RawOf(results) ==
    IF results.shape = "rows" /\ Len(results.cells) = 1 THEN results.cells[1] ELSE <<>>

(***************************************************************************)
(* Specification 1: any sequence of Dataset calls and predict calls.       *)
(***************************************************************************)
Fractions == {[num |-> k, den |-> FracDen] : k \in 1..FracDen}

\* main's Dataset(0.7, 20) and main's fraction at another size
NamedDatasets == {<<MainFraction, ds>> : ds \in {MAIN_DATASET_SIZE} \cup ShortfallSizes}

DatasetChoices == {<<tf, ds>> : tf \in Fractions, ds \in 0..MaxSize} \cup NamedDatasets

\* the ids in the table: any ids up to one past a small dataset, every id
\* (and possibly one more) of a large one
IdSets(ds) == IF ds <= MaxSize THEN SUBSET (1..(ds + 1)) ELSE {1..ds, 1..(ds + 1)}

Tables(ds) == {Labels(S, 1, b) : S \in IdSets(ds), b \in 0..MaxPickups}

Init ==
    /\ \E c \in DatasetChoices : DatasetInit(c[1], c[2])
    /\ table \in Tables(dataset_size)
    /\ pred = NoPred
    /\ pc = "api"
    /\ args = <<>>
    /\ TRAIN_BATCH_SIZE = 1
    /\ row_dicts = <<>>
    /\ requested = <<>>
    /\ test_data = <<>>
    /\ true_num_pickups = <<>>
    /\ predicted_num_pickups = <<>>

GetTrainExamples ==
    /\ pc = "api"
    /\ \E batch_size \in 0..MaxBatch : GetTrainExamplesCall(batch_size)
    /\ UNCHANGED <<pred, pc, harnessVars>>

GetTestExample ==
    /\ pc = "api"
    /\ GetTestExampleCall
    /\ UNCHANGED <<pred, pc, harnessVars>>

PredictRegression ==
    /\ pc = "api"
    /\ \E m \in RegressionModels, y \in RawVals :
           pred' = [model |-> m, raw |-> <<y>>, outcome |-> "ok",
                    value |-> RegressionPredict(y)]
    /\ UNCHANGED <<datasetFields, current_example_id, call, pc, harnessVars>>

PredictBaseline ==
    /\ pc = "api"
    /\ \E m \in BaselineModels, results \in AggregateResults :
           pred' = [model |-> m, raw |-> RawOf(results),
                    outcome |-> BaselinePredict(results).outcome,
                    value |-> BaselinePredict(results).value]
    /\ UNCHANGED <<datasetFields, current_example_id, call, pc, harnessVars>>

Next == GetTrainExamples \/ GetTestExample \/ PredictRegression \/ PredictBaseline

Spec == Init /\ [][Next]_vars

(***************************************************************************)
(* Claims about Dataset and predict, checked under Spec.                   *)
(***************************************************************************)
IsTrainCall == call.op = "getTrainExamples"

IsTestCall == call.op = "getTestExample"

\* C1: over getTrainExamples(batch_size >= 1) and getTestExample calls the
\* cursor current_example_id never decreases.
C1_CursorNeverDecreases ==
    [][(\/ call'.op = "getTestExample"
        \/ (call'.op = "getTrainExamples" /\ call'.batch_size >= 1))
       => current_example_id' >= current_example_id]_vars

\* C2: the id window getTrainExamples(batch_size >= 1) asks the row source for
\* ends at or before last_train_id, and no returned row has a larger id.
C2_TrainFetchWithinTrainRegion ==
    (IsTrainCall /\ call.batch_size >= 1) =>
        /\ call.end_id <= last_train_id
        /\ \A k \in 1..Len(call.examples) : RowId(call.examples[k]) <= last_train_id

\* a batch larger than the rows left was requested and rows came back
C2_Witness ==
    /\ IsTrainCall
    /\ call.batch_size >= 1
    /\ call.before <= last_train_id
    /\ call.before + call.batch_size - 1 > last_train_id
    /\ Len(call.examples) >= 1

\* C3: a successful getTestExample returns the row with id
\* max(cursor before, last_train_id + 1), an id above last_train_id, and
\* leaves the cursor one past it; with dataset_size 20 and train_fraction 0.7
\* a call made from the train region returns id 15.
C3_TestExampleIsFirstUnservedTestRow ==
    (IsTestCall /\ call.outcome = "ok") =>
        /\ Len(call.examples) = 1
        /\ RowId(call.examples[1]) = Max(call.before, last_train_id + 1)
        /\ RowId(call.examples[1]) > last_train_id
        /\ current_example_id = RowId(call.examples[1]) + 1
        /\ (/\ train_fraction = MainFraction
            /\ dataset_size = MAIN_DATASET_SIZE
            /\ call.before <= 14)
           => RowId(call.examples[1]) = 15

\* main's Dataset: getTestExample called with the cursor still in the train region
C3_Witness ==
    /\ IsTestCall
    /\ call.outcome = "ok"
    /\ train_fraction = MainFraction
    /\ dataset_size = MAIN_DATASET_SIZE
    /\ call.before <= last_train_id
    /\ call.before < RowId(call.examples[1])

\* C4: a getTestExample call raises the out-of-range error exactly when the
\* cursor is past last_test_id, the failing call leaves the cursor alone, and
\* once the cursor is past last_test_id it stays there over getTestExample and
\* getTrainExamples(batch_size >= 1) calls, so every later call fails too.
C4_OutOfRangeExactlyPastEndAndForGood ==
    [][/\ GetTestExample =>
            /\ (call'.outcome = "OutOfRange") <=> (current_example_id > last_test_id)
            /\ (call'.outcome = "OutOfRange") => (current_example_id' = current_example_id)
       /\ (/\ current_example_id > last_test_id
           /\ \/ GetTestExample
              \/ (GetTrainExamples /\ call'.batch_size >= 1))
          => (current_example_id' > last_test_id)]_vars

\* C6 as stated: getTrainExamples advances the cursor by the number of rows
\* the row source returned.
C6_AdvancesByRowsReturned ==
    IsTrainCall => current_example_id = call.before + Len(call.examples)

\* C6 amended: getTrainExamples moves the cursor by
\* min(batch_size, last_train_id - cursor + 1), whatever the row source
\* returned; that is the number of rows returned when the cursor was at most
\* last_train_id + 1 and every id of the window is present.
C6_AdvancesByTruncatedBatchSize ==
    IsTrainCall =>
        /\ current_example_id =
               call.before + Min(call.batch_size, last_train_id - call.before + 1)
        /\ (/\ call.before <= last_train_id + 1
            /\ \A i \in call.start_id..call.end_id : i \in DOMAIN table)
           => current_example_id = call.before + Len(call.examples)

\* the row source returned fewer rows than the window is wide
C6_Witness ==
    /\ IsTrainCall
    /\ call.end_id >= call.start_id
    /\ Len(call.examples) < call.end_id - call.start_id + 1
    /\ current_example_id > call.before

\* C8 as stated: for train_fraction in (0,1] and dataset_size > 0,
\* last_train_id = floor(train_fraction * dataset_size), last_test_id =
\* dataset_size and 1 <= last_train_id <= last_test_id.
C8_SplitWithNonEmptyTrainRegion ==
    dataset_size > 0 =>
        /\ last_train_id * train_fraction.den <= train_fraction.num * dataset_size
        /\ train_fraction.num * dataset_size < (last_train_id + 1) * train_fraction.den
        /\ last_test_id = dataset_size
        /\ 1 <= last_train_id
        /\ last_train_id <= last_test_id

\* C8 amended: last_train_id is the integer part of the double product
\* train_fraction * dataset_size: floor(train_fraction * dataset_size), or one
\* less where that product is a whole number (0.7 * 90 gives 62; 0.7 * 20
\* gives 14); last_test_id = dataset_size; 0 <= last_train_id <= last_test_id;
\* train ids 1..last_train_id and test ids last_train_id+1..last_test_id are
\* disjoint and cover 1..dataset_size.
C8_SplitCoversDataset ==
    dataset_size > 0 =>
        /\ last_train_id * train_fraction.den <= train_fraction.num * dataset_size
        /\ train_fraction.num * dataset_size < (last_train_id + 2) * train_fraction.den
        /\ (train_fraction.num * dataset_size) % train_fraction.den # 0
           => train_fraction.num * dataset_size < (last_train_id + 1) * train_fraction.den
        /\ (train_fraction = MainFraction /\ dataset_size = 90) => last_train_id = 62
        /\ (train_fraction = MainFraction /\ dataset_size = 20) => last_train_id = 14
        /\ last_test_id = dataset_size
        /\ 0 <= last_train_id
        /\ last_train_id <= last_test_id
        /\ (1..last_train_id) \cap ((last_train_id + 1)..last_test_id) = {}
        /\ (1..last_train_id) \cup ((last_train_id + 1)..last_test_id) = 1..dataset_size

\* a non-empty dataset whose train region is empty
C8_Witness ==
    /\ dataset_size > 0
    /\ train_fraction.num < train_fraction.den
    /\ last_train_id = 0
    /\ last_test_id = dataset_size

\* C9: predict of every model variant returns a value >= 0; a negative raw
\* value (regressor output or aggregate average) comes back as 0, a
\* non-negative one unchanged.
C9_PredictNeverNegative ==
    (pred.model # "none" /\ pred.outcome = "ok") =>
        /\ pred.value >= 0
        /\ pred.raw # <<>> =>
               pred.value = (IF pred.raw[1] < 0 THEN 0 ELSE pred.raw[1])

\* C10: 1 <= current_example_id <= last_test_id + 1 in every state, and a
\* getTrainExamples call made with the cursor past last_train_id fetches an
\* empty range and leaves the cursor at last_train_id + 1.
C10_CursorWithinDataset ==
    /\ 1 <= current_example_id
    /\ current_example_id <= last_test_id + 1
    /\ (IsTrainCall /\ call.before > last_train_id) =>
           /\ call.end_id < call.start_id
           /\ call.examples = <<>>
           /\ current_example_id = last_train_id + 1

(***************************************************************************)
(* Specification 2: RegressionModel.train over the Dataset.                *)
(*   while self.dataset.hasMoreTrainExamples():                            *)
(*       row_dicts.extend(self.dataset.getTrainExamples(TRAIN_BATCH_SIZE)) *)
(* followed by the vectorisation, the labels and the single fit.           *)
(***************************************************************************)
TrainInit ==
    /\ \E c \in DatasetChoices : DatasetInit(c[1], c[2])
    /\ table \in Tables(dataset_size)
    /\ pred = NoPred
    /\ pc = "loop"
    /\ args = <<>>
    /\ TRAIN_BATCH_SIZE \in 1..MaxBatch
    /\ row_dicts = <<>>
    /\ requested = <<>>
    /\ test_data = <<>>
    /\ true_num_pickups = <<>>
    /\ predicted_num_pickups = <<>>

TrainLoop ==
    /\ pc = "loop"
    /\ hasMoreTrainExamples
    /\ GetTrainExamplesCall(TRAIN_BATCH_SIZE)
    /\ row_dicts' = row_dicts \o call'.examples
    /\ requested' = requested \o Ids(call'.start_id, call'.end_id)
    /\ UNCHANGED <<pred, pc, args, TRAIN_BATCH_SIZE, test_data, true_num_pickups,
                   predicted_num_pickups>>

\* models.py lines 67-72, after the loop.  Line 70 reads
\* train_example['num_pickups'] of every collected row; the rows of this
\* Dataset are tuples, so the read raises TypeError as soon as there is a row.
\* With no row the labels are empty and the regressor is fitted.
TrainFit ==
    /\ pc = "loop"
    /\ ~hasMoreTrainExamples
    /\ pc' = IF row_dicts = <<>> THEN "trained" ELSE "type_error"
    /\ UNCHANGED <<datasetFields, current_example_id, call, pred, harnessVars>>

TrainNext == TrainLoop \/ TrainFit

TrainSpec == TrainInit /\ [][TrainNext]_vars /\ WF_vars(TrainNext)

\* C5: from a fresh Dataset the drain loop of RegressionModel.train ends for
\* every batch size >= 1, having requested exactly the ids 1..last_train_id
\* in increasing order, each once, and with the cursor at last_train_id + 1.
C5_DrainTerminatesExactlyOnce ==
    /\ <>(pc # "loop")
    /\ [](pc # "loop" =>
            /\ requested = Ids(1, last_train_id)
            /\ current_example_id = last_train_id + 1
            /\ row_dicts = SelectBetween(1, last_train_id))

\* a drain whose last batch was cut short
C5_Witness ==
    /\ pc # "loop"
    /\ TRAIN_BATCH_SIZE >= 2
    /\ last_train_id > TRAIN_BATCH_SIZE
    /\ last_train_id % TRAIN_BATCH_SIZE # 0
    /\ Len(requested) = last_train_id

(***************************************************************************)
(* Specification 3: main, with the models module that is in the source.    *)
(* getModel answers every model name with an exception: names other than   *)
(* 'baseline' with "No model with name", 'baseline' with the TypeError of   *)
(* Baseline() called without the (database, dataset) its __init__ requires. *)
(* Lines 140-147 (Dataset, train, evaluate) are therefore never reached.    *)
(***************************************************************************)
ModelNames == {"baseline", "betterbaseline", "linear", "svr", "dtr"}

ArgWords == ModelNames \cup {"extra"}

NoFraction == [num |-> 0, den |-> 1]

HarnessInit ==
    \* no Dataset object exists yet
    /\ train_fraction = NoFraction
    /\ dataset_size = 0
    /\ last_train_id = 0
    /\ last_test_id = 0
    /\ current_example_id = 0
    /\ call = NoCall
    /\ \E n \in MAIN_DATASET_SIZE..(MAIN_DATASET_SIZE + 1), b \in 0..MaxPickups :
           table = Labels(1..n, 1, b)
    /\ pred = NoPred
    /\ pc = "main"
    /\ args \in {<<>>} \cup {<<w>> : w \in ArgWords}
                \cup {<<w, x>> : w \in ArgWords, x \in ArgWords}
    /\ TRAIN_BATCH_SIZE = 1
    /\ row_dicts = <<>>
    /\ requested = <<>>
    /\ test_data = <<>>
    /\ true_num_pickups = <<>>
    /\ predicted_num_pickups = <<>>

\* main lines 134-136: no model name given, exit(1)
MainUsage ==
    /\ pc = "main"
    /\ Len(args) < 1
    /\ pc' = "exit1"
    /\ UNCHANGED <<datasetFields, current_example_id, call, pred, harnessVars>>

\* getModel line 131: raise Exception("No model with name ...")
MainUnknownModel ==
    /\ pc = "main"
    /\ Len(args) >= 1
    /\ args[1] # "baseline"
    /\ pc' = "no_model"
    /\ UNCHANGED <<datasetFields, current_example_id, call, pred, harnessVars>>

\* getModel line 130: Baseline() raises TypeError, main aborts
MainBaseline ==
    /\ pc = "main"
    /\ Len(args) >= 1
    /\ args[1] = "baseline"
    /\ pc' = "type_error"
    /\ UNCHANGED <<datasetFields, current_example_id, call, pred, harnessVars>>

HarnessNext == MainUsage \/ MainUnknownModel \/ MainBaseline

HarnessSpec == HarnessInit /\ [][HarnessNext]_vars /\ WF_vars(HarnessNext)

\* C7: a run of the harness with a model finishes ("done") holding one
\* (true label, prediction) pair for each test id
\* last_train_id+1..last_test_id of Dataset(0.7, 20), that is 15..20, in id
\* order, with no test example left.
C7_HarnessRunCollectsTestPairs ==
    (pc # "main" /\ Len(args) >= 1 /\ args[1] = "baseline") =>
        /\ pc = "done"
        /\ last_test_id = MAIN_DATASET_SIZE
        /\ Len(test_data) = last_test_id - last_train_id
        /\ \A k \in 1..Len(test_data) : RowId(test_data[k]) = last_train_id + k
        /\ Len(true_num_pickups) = Len(test_data)
        /\ Len(predicted_num_pickups) = Len(test_data)
        /\ ~hasMoreTestExamples
====
